---- MODULE Spec2Model ----
(***************************************************************************)
(* A model of the RAG service: the four vector-store variants of           *)
(* src/src/vector_databases.py behind their common add / search / save /   *)
(* load / reset / get_stats contract, and the request handlers of          *)
(* src/app.py that drive them.                                             *)
(*                                                                         *)
(* Five specifications share the state:                                    *)
(*   StoreSpec  the store contract called directly, with any arguments     *)
(*   Spec       the HTTP handlers of app.py on top of the store            *)
(*   LoopSpec   upload requests interleaved on the event loop              *)
(*   PathSpec   the in-memory store saved and loaded on any path           *)
(*   PureSpec   the pure functions, applied to arguments drawn from        *)
(*              bounded sets                                               *)
(*                                                                         *)
(* Representation.                                                         *)
(*   - a vector is a function 1..w -> Int (w its width); the model uses    *)
(*     vectors whose Euclidean norm is an integer, so that every           *)
(*     similarity is an exact rational [n |-> numerator, d |-> denominator]*)
(*     with d > 0;                                                         *)
(*   - an id "vec_<k>" is the tuple <<"vec", k>> and an id "vec_<ts>_<i>"  *)
(*     the tuple <<"vec", ts, i>> (the f-strings are injective);           *)
(*   - a metadata dict is a function from key strings to values;           *)
(*   - a question is a sequence of one-character strings.                  *)
(***************************************************************************)
EXTENDS Integers, Sequences, FiniteSets, TLC

(***************************************************************************)
(* Bounds of the model.                                                    *)
(***************************************************************************)
\* the embedding dimension the store is constructed with (1024 in config.py,
\* scaled down)
Dim == 2
\* the store holds at most this many entries
MaxVectors == 2
\* the wall clock (milliseconds) runs from 0 to MaxTime
MaxTime == 1
\* largest batch (and largest text / metadata list) passed to add
MaxBatch == MaxVectors
\* largest top_k of a search
MaxTopK == MaxVectors

VARIABLES
    provider,       \* VECTOR_DB_CONFIG["provider"]
    index_type,     \* VECTOR_DB_CONFIG["faiss"]["index_type"]
    index,          \* FAISSDatabase.index: the vectors, in insertion order
    chunks,         \* FAISSDatabase.chunks: {"id","text","metadata"} records
    collection,     \* ChromaDBDatabase.collection: [dim, rows]
    pinecone,       \* the remote index behind PineconeDatabase.index
    chunks_map,     \* PineconeDatabase.chunks_map
    table,          \* the rows of PgVectorDatabase's table
    files,          \* the file system under the FAISS persist path
    now,            \* time.time() in milliseconds
    issued,         \* history: every id a successful add has returned so far
    since_reset,    \* history: "yes" from a reset until an add succeeds,
                    \* "loaded" once a load has succeeded in between, else "no"
    last,           \* the last direct store call and what it returned
    document_counter,   \* app.document_counter["count"]
    calls,          \* the steps the last request handler went through
    response,       \* the HTTP response of the last request
    inflight,       \* the upload requests in progress on the event loop
    args,           \* the arguments of a call of one of the pure functions
    result          \* what that call returned ([called |-> FALSE] before it)

store == <<index, chunks, collection, pinecone, chunks_map, table>>
\* what the request handlers of app.py add to the state
app == <<document_counter, calls, response>>
\* a call of a pure function
pure == <<args, result>>
vars == <<provider, index_type, index, chunks, collection, pinecone,
          chunks_map, table, files, now, issued, since_reset, last,
          document_counter, calls, response,
          inflight, args, result>>

(***************************************************************************)
(* Values.                                                                 *)
(***************************************************************************)
Providers == {"faiss", "chromadb", "pinecone", "pgvector"}
IndexTypes == {"IndexFlatL2", "IndexFlatIP"}

Min(a, b) == IF a <= b THEN a ELSE b

\* the vector (a, b, 0, ..., 0) of width w
Vec(a, b, w) == [i \in 1..w |-> IF i = 1 THEN a ELSE IF i = 2 THEN b ELSE 0]
\* the vectors of width w that are stored: orthogonal unit vectors
Vectors(w) == {Vec(1, 0, w), Vec(0, 1, w)}
\* the store's width, and a width that is not the store's
Widths == {Dim, Dim + 1}

Texts == {"a", "b"}
\* the metadata map given to add: a caller's map may have any key, and this
\* one has a key named "text"
Metas == {[filename |-> "f1", text |-> "t"]}

\* the sequences over S of length lo..hi
SeqsOf(S, lo, hi) == UNION {[1..k -> S] : k \in lo..hi}

\* an n x w embedding matrix: n rows of one common width; of the wrong width
\* there is one matrix for each n
Matrices == SeqsOf(Vectors(Dim), 1, MaxBatch)
            \cup SeqsOf({Vec(1, 0, Dim + 1)}, 1, MaxBatch)
Width(embeddings) == Len(embeddings[1])
\* the query vectors: two of the store's width (norms 1 and 5), one of another
Queries == {Vec(1, 0, Dim), Vec(3, 4, Dim), Vec(1, 0, Dim + 1)}

VecId(k) == <<"vec", k>>
TsId(ts, i) == <<"vec", ts, i>>

NoFile == [kind |-> "none"]
\* VECTOR_DB_CONFIG["faiss"]["persist_path"], split at the ".index" it holds
PersistPath == <<"./vector_store/faiss", ".index">>

(***************************************************************************)
(* Vector arithmetic and similarity scores.                                *)
(***************************************************************************)
RECURSIVE SumTo(_, _)
\* f[1] + ... + f[k]
SumTo(f, k) == IF k = 0 THEN 0 ELSE f[k] + SumTo(f, k - 1)

Dot(a, b) == SumTo([i \in 1..Len(a) |-> a[i] * b[i]], Len(a))
\* squared Euclidean distance: what faiss.IndexFlatL2 and a Chroma collection
\* created without "hnsw:space" report as the distance
SqL2(a, b) == SumTo([i \in 1..Len(a) |-> (a[i] - b[i]) * (a[i] - b[i])], Len(a))
\* Euclidean norm (an integer for the vectors of the model)
Norm(a) == CHOOSE r \in 0..Dot(a, a) : r * r = Dot(a, a)

Rat(n, d) == [n |-> n, d |-> d]
RatLess(x, y) == x.n * y.d < y.n * x.d
RatLeq(x, y) == x.n * y.d <= y.n * x.d
\* cosine similarity of two nonzero vectors
Cosine(a, b) == Rat(Dot(a, b), Norm(a) * Norm(b))

RECURSIVE BestFirst(_, _)
\* the members of S ordered by descending score, ties by ascending position:
\* the order in which a backend hands back its nearest neighbours
BestFirst(score, S) ==
    IF S = {} THEN <<>>
    ELSE LET top == CHOOSE i \in S : \A j \in S :
                        \/ RatLess(score[j], score[i])
                        \/ (~RatLess(score[i], score[j]) /\ i <= j)
         IN  <<top>> \o BestFirst(score, S \ {top})

\* the first k elements of a sequence (all of it when shorter)
Take(s, k) == SubSeq(s, 1, Min(k, Len(s)))

RECURSIVE SelectIdx(_, _)
\* for idx in order: if ok[idx]: keep idx
SelectIdx(order, ok) ==
    IF order = <<>> THEN <<>>
    ELSE (IF ok[Head(order)] THEN <<Head(order)>> ELSE <<>>)
         \o SelectIdx(Tail(order), ok)

Result(id, text, metadata, similarity) ==
    [id |-> id, text |-> text, metadata |-> metadata, similarity |-> similarity]

\* what a store call hands back: ok = FALSE when it raised
Returned(ok, results) == [ok |-> ok, results |-> results]

(***************************************************************************)
(* FAISSDatabase                                                           *)
(***************************************************************************)
\* the "distance" index.search reports for stored vector v: the squared L2
\* distance for IndexFlatL2 (and for any unrecognised index_type), the inner
\* product for IndexFlatIP
FaissDistance(q, v) ==
    IF index_type = "IndexFlatIP" THEN Dot(q, v) ELSE SqL2(q, v)

\* the order of index.search: nearest first for L2, largest inner product
\* first for IP
FaissRank(q, v) ==
    IF index_type = "IndexFlatIP" THEN Rat(Dot(q, v), 1) ELSE Rat(0 - SqL2(q, v), 1)

\* similarity_score = 1 / (1 + distances[0][i])
FaissSimilarity(distance) == Rat(1, 1 + distance)

FaissSearch(query_embedding, top_k) ==
    IF Len(index) = 0 THEN Returned(TRUE, <<>>)
    ELSE IF Len(query_embedding) # Dim THEN Returned(FALSE, <<>>)
    ELSE LET ntotal  == Len(index)
             indices == Take(BestFirst([i \in 1..ntotal |->
                                           FaissRank(query_embedding, index[i])],
                                       1..ntotal),
                             Min(top_k, ntotal))
             \* if idx < len(self.chunks)
             kept    == SelectIdx(indices, [i \in 1..ntotal |-> i <= Len(chunks)])
         IN  Returned(TRUE,
                 [r \in 1..Len(kept) |->
                     Result(chunks[kept[r]].id, chunks[kept[r]].text,
                            chunks[kept[r]].metadata,
                            FaissSimilarity(FaissDistance(query_embedding,
                                                          index[kept[r]])))])

FaissTotalVectors == Len(index)

(***************************************************************************)
(* ChromaDBDatabase                                                        *)
(***************************************************************************)
ChromaCount == Len(collection.rows)

ChromaSearch(query_embedding, top_k) ==
    IF ChromaCount = 0 THEN Returned(TRUE, <<>>)
    ELSE IF Len(query_embedding) # collection.dim THEN Returned(FALSE, <<>>)
    ELSE LET rows == collection.rows
             ids  == Take(BestFirst([i \in 1..Len(rows) |->
                                        Rat(0 - SqL2(query_embedding, rows[i].embedding), 1)],
                                    1..Len(rows)),
                          Min(top_k, ChromaCount))
         IN  Returned(TRUE,
                 [r \in 1..Len(ids) |->
                     Result(rows[ids[r]].id, rows[ids[r]].document,
                            rows[ids[r]].metadata,
                            \* 1 - results['distances'][0][i]
                            Rat(1 - SqL2(query_embedding, rows[ids[r]].embedding), 1))])

(***************************************************************************)
(* PineconeDatabase                                                        *)
(***************************************************************************)
\* match['metadata'].pop('text', '')
PopText(metadata) ==
    IF "text" \in DOMAIN metadata THEN metadata["text"] ELSE ""
WithoutText(metadata) ==
    [k \in (DOMAIN metadata) \ {"text"} |-> metadata[k]]

PineconeSearch(query_embedding, top_k) ==
    IF Len(query_embedding) # Dim THEN Returned(FALSE, <<>>)
    ELSE LET matches == Take(BestFirst([i \in 1..Len(pinecone) |->
                                           Cosine(query_embedding, pinecone[i].values)],
                                       1..Len(pinecone)),
                             top_k)
         IN  Returned(TRUE,
                 [r \in 1..Len(matches) |->
                     Result(pinecone[matches[r]].id,
                            PopText(pinecone[matches[r]].metadata),
                            WithoutText(pinecone[matches[r]].metadata),
                            Cosine(query_embedding, pinecone[matches[r]].values))])

PineconeTotalVectors == Len(pinecone)

(***************************************************************************)
(* PgVectorDatabase                                                        *)
(***************************************************************************)
\* 1 - (embedding <=> query): <=> is the cosine distance, and it raises on
\* operands of different dimensions when it is evaluated for a row
PgSearch(query_embedding, top_k) ==
    IF Len(table) = 0 THEN Returned(TRUE, <<>>)
    ELSE IF Len(query_embedding) # Dim THEN Returned(FALSE, <<>>)
    ELSE LET rows == Take(BestFirst([i \in 1..Len(table) |->
                                        Cosine(query_embedding, table[i].embedding)],
                                    1..Len(table)),
                          top_k)
         IN  Returned(TRUE,
                 [r \in 1..Len(rows) |->
                     Result(table[rows[r]].id, table[rows[r]].text,
                            table[rows[r]].metadata,
                            Cosine(query_embedding, table[rows[r]].embedding))])

PgTotalVectors == Len(table)

(***************************************************************************)
(* The store contract, dispatched on the configured provider.              *)
(***************************************************************************)
\* vector_db.search(query_embedding, top_k)
Search(query_embedding, top_k) ==
    CASE provider = "faiss"    -> FaissSearch(query_embedding, top_k)
      [] provider = "chromadb" -> ChromaSearch(query_embedding, top_k)
      [] provider = "pinecone" -> PineconeSearch(query_embedding, top_k)
      [] provider = "pgvector" -> PgSearch(query_embedding, top_k)

\* vector_db.get_stats()["total_vectors"]
TotalVectors ==
    CASE provider = "faiss"    -> FaissTotalVectors
      [] provider = "chromadb" -> ChromaCount
      [] provider = "pinecone" -> PineconeTotalVectors
      [] provider = "pgvector" -> PgTotalVectors

(***************************************************************************)
(* add                                                                     *)
(***************************************************************************)
\* the record of a store call: the operation, whether it returned (ok) or
\* raised, the ids it returned, the results it returned (for add: the
\* metadata maps it was given), the width of the vectors it was given and,
\* for add, whether len(vectors) = len(texts) = len(metadatas)
Call(op, ok, ids, results, width, aligned) ==
    [op |-> op, ok |-> ok, ids |-> ids, results |-> results, width |-> width,
     aligned |-> aligned]

Range(s) == {s[i] : i \in DOMAIN s}
Max(a, b) == IF a >= b THEN a ELSE b

\* the clock reads `now` during a call and may have moved on by the next one
\* (followed only for the variants whose add reads it)
TimePasses ==
    IF provider \in {"pinecone", "pgvector"}
    THEN now' \in {now, Min(now + 1, MaxTime)}
    ELSE now' = now

\* d[k] = v on a dict
MapPut(d, k, v) == [x \in (DOMAIN d) \cup {k} |-> IF x = k THEN v ELSE d[x]]

RECURSIVE Upsert(_, _)
\* index.upsert / INSERT ... ON CONFLICT (id) DO UPDATE: a row whose id is
\* already there is overwritten in place, any other row is appended
Upsert(rows, new) ==
    IF new = <<>> THEN rows
    ELSE LET r == Head(new)
             merged == IF \E i \in DOMAIN rows : rows[i].id = r.id
                       THEN [i \in DOMAIN rows |-> IF rows[i].id = r.id THEN r ELSE rows[i]]
                       ELSE Append(rows, r)
         IN  Upsert(merged, Tail(new))

\* ids = [f"vec_{start_id + i}" for i in range(len(embeddings))]
CounterIds(start_id, n) == [i \in 1..n |-> VecId(start_id + i - 1)]
\* ids = [f"vec_{timestamp}_{i}" for i in range(len(embeddings))]
TimestampIds(timestamp, n) == [i \in 1..n |-> TsId(timestamp, i - 1)]

\* FAISSDatabase.add raises IndexError at ids[i] once zip(texts, metadata)
\* runs past len(embeddings), and index.add raises when the width is not
\* the index's
FaissAddRaises(embeddings, texts, metadata) ==
    \/ Min(Len(texts), Len(metadata)) > Len(embeddings)
    \/ Width(embeddings) # Dim

\* FAISSDatabase.add: the chunk records are appended first, index.add comes
\* last
FaissAdd(embeddings, texts, metadata) ==
    LET ids      == CounterIds(Len(chunks), Len(embeddings))
        zipped   == Min(Len(texts), Len(metadata))
        appended == [i \in 1..Min(zipped, Len(embeddings)) |->
                        [id |-> ids[i], text |-> texts[i], metadata |-> metadata[i]]]
    IN  /\ chunks' = chunks \o appended
        /\ index' = IF FaissAddRaises(embeddings, texts, metadata)
                    THEN index ELSE index \o embeddings
        /\ UNCHANGED <<collection, pinecone, chunks_map, table>>

\* collection.add validates the whole batch before it writes: equal lengths,
\* and the width of the collection, which the first add sets
ChromaAddRaises(embeddings, texts, metadata) ==
    \/ Len(texts) # Len(embeddings)
    \/ Len(metadata) # Len(embeddings)
    \/ (collection.dim # 0 /\ Width(embeddings) # collection.dim)

\* ChromaDBDatabase.add
ChromaAdd(embeddings, texts, metadata) ==
    LET ids  == CounterIds(ChromaCount, Len(embeddings))
        rows == [i \in 1..Len(embeddings) |->
                    [id |-> ids[i], embedding |-> embeddings[i],
                     document |-> texts[i], metadata |-> metadata[i]]]
    IN  /\ collection' = IF ChromaAddRaises(embeddings, texts, metadata)
                         THEN collection
                         ELSE [dim |-> Width(embeddings), rows |-> collection.rows \o rows]
        /\ UNCHANGED <<index, chunks, pinecone, chunks_map, table>>

RECURSIVE PutAll(_, _, _, _)
\* self.chunks_map[vec_id] = {"text": text, "metadata": meta}, for the first
\* k triples of the zip
PutAll(d, ids, texts, metadata) ==
    IF ids = <<>> \/ texts = <<>> \/ metadata = <<>> THEN d
    ELSE PutAll(MapPut(d, Head(ids), [text |-> Head(texts), metadata |-> Head(metadata)]),
                Tail(ids), Tail(texts), Tail(metadata))

\* index.upsert raises when the width is not the index's
PineconeAddRaises(embeddings, texts, metadata) == Width(embeddings) # Dim

\* PineconeDatabase.add: zip(ids, embeddings, texts, metadata) stops at the
\* shortest; chunks_map is filled in the loop, before the upsert
PineconeAdd(embeddings, texts, metadata) ==
    LET ids     == TimestampIds(now, Len(embeddings))
        zipped  == Min(Len(embeddings), Min(Len(texts), Len(metadata)))
        vectors == [i \in 1..zipped |->
                       [id |-> ids[i], values |-> embeddings[i],
                        \* full_metadata = {**meta, "text": text}
                        metadata |-> MapPut(metadata[i], "text", texts[i])]]
    IN  /\ chunks_map' = PutAll(chunks_map, ids, texts, metadata)
        /\ pinecone' = IF PineconeAddRaises(embeddings, texts, metadata)
                       THEN pinecone ELSE Upsert(pinecone, vectors)
        /\ UNCHANGED <<index, chunks, collection, table>>

\* the vector(dimensions) column rejects another width
PgAddRaises(embeddings, texts, metadata) == Width(embeddings) # Dim

\* PgVectorDatabase.add: one INSERT ... ON CONFLICT (id) DO UPDATE statement
\* under autocommit, over the zip of the four lists
PgAdd(embeddings, texts, metadata) ==
    LET ids    == TimestampIds(now, Len(embeddings))
        zipped == Min(Len(embeddings), Min(Len(texts), Len(metadata)))
        values == [i \in 1..zipped |->
                      [id |-> ids[i], embedding |-> embeddings[i],
                       text |-> texts[i], metadata |-> metadata[i]]]
    IN  /\ table' = IF PgAddRaises(embeddings, texts, metadata)
                    THEN table ELSE Upsert(table, values)
        /\ UNCHANGED <<index, chunks, collection, pinecone, chunks_map>>

\* vector_db.add(embeddings, texts, metadata): the effect on the store
StoreAdd(embeddings, texts, metadata) ==
    CASE provider = "faiss"    -> FaissAdd(embeddings, texts, metadata)
      [] provider = "chromadb" -> ChromaAdd(embeddings, texts, metadata)
      [] provider = "pinecone" -> PineconeAdd(embeddings, texts, metadata)
      [] provider = "pgvector" -> PgAdd(embeddings, texts, metadata)

\* vector_db.add(embeddings, texts, metadata) raises
StoreAddRaises(embeddings, texts, metadata) ==
    CASE provider = "faiss"    -> FaissAddRaises(embeddings, texts, metadata)
      [] provider = "chromadb" -> ChromaAddRaises(embeddings, texts, metadata)
      [] provider = "pinecone" -> PineconeAddRaises(embeddings, texts, metadata)
      [] provider = "pgvector" -> PgAddRaises(embeddings, texts, metadata)

\* the ids vector_db.add returns
StoreAddIds(embeddings) ==
    CASE provider = "faiss"    -> CounterIds(Len(chunks), Len(embeddings))
      [] provider = "chromadb" -> CounterIds(ChromaCount, Len(embeddings))
      [] provider = "pinecone" -> TimestampIds(now, Len(embeddings))
      [] provider = "pgvector" -> TimestampIds(now, Len(embeddings))

\* the number of entries the store holds (for FAISS the longer of its two lists)
StoreSize ==
    IF provider = "faiss" THEN Max(Len(index), Len(chunks)) ELSE TotalVectors

Add(embeddings, texts, metadata) ==
    /\ StoreSize + Max(Len(embeddings), Min(Len(texts), Len(metadata))) <= MaxVectors
    /\ StoreAdd(embeddings, texts, metadata)
    /\ last' = Call("add", ~StoreAddRaises(embeddings, texts, metadata),
                    IF StoreAddRaises(embeddings, texts, metadata)
                    THEN <<>> ELSE StoreAddIds(embeddings),
                    metadata, Width(embeddings),
                    Len(texts) = Len(embeddings) /\ Len(metadata) = Len(embeddings))
    /\ issued' = IF StoreAddRaises(embeddings, texts, metadata) THEN issued
                 ELSE issued \cup Range(StoreAddIds(embeddings))
    /\ since_reset' = IF StoreAddRaises(embeddings, texts, metadata)
                      THEN since_reset ELSE "no"
    /\ TimePasses
    /\ UNCHANGED <<pure, inflight, provider, index_type, files, app>>

(***************************************************************************)
(* search, save, load, reset                                               *)
(***************************************************************************)
DoSearch(query_embedding, top_k) ==
    /\ last' = Call("search", Search(query_embedding, top_k).ok, <<>>,
                    Search(query_embedding, top_k).results,
                    Len(query_embedding), TRUE)
    /\ TimePasses
    /\ UNCHANGED <<pure, inflight, provider, index_type, store, files, issued, since_reset, app>>

\* metadata_path = path.replace(".index", "_metadata.json")
MetadataPath(path) ==
    [i \in DOMAIN path |-> IF path[i] = ".index" THEN "_metadata.json" ELSE path[i]]

\* a path that does not hold ".index": path.replace leaves it as it is
PlainPath == <<"./vector_store/faiss">>

\* the paths save and load are called with
Paths == {PersistPath, PlainPath}

FilePaths == Paths \cup {MetadataPath(path) : path \in Paths}

\* os.path.exists(path)
Exists(path) == path \in DOMAIN files /\ files[path] # NoFile

\* FAISSDatabase.save: faiss.write_index(index, path), then json.dump(chunks)
\* to the metadata path
FaissSave(path) ==
    /\ files' = [f \in DOMAIN files |->
                    IF f = MetadataPath(path) THEN [kind |-> "json", data |-> chunks]
                    ELSE IF f = path THEN [kind |-> "index", data |-> index]
                    ELSE files[f]]
    /\ UNCHANGED store

\* FAISSDatabase.load raises FileNotFoundError when the index file is
\* missing; read_index and json.load raise on a file of the other kind
FaissLoadRaises(path) ==
    \/ ~Exists(path)
    \/ files[path].kind # "index"
    \/ (Exists(MetadataPath(path)) /\ files[MetadataPath(path)].kind # "json")

\* FAISSDatabase.load: self.index is replaced first; self.chunks is replaced
\* only if the metadata file exists
FaissLoad(path) ==
    IF ~Exists(path) \/ files[path].kind # "index"
    THEN UNCHANGED <<store, files>>
    ELSE /\ index' = files[path].data
         /\ chunks' = IF Exists(MetadataPath(path)) /\ files[MetadataPath(path)].kind = "json"
                      THEN files[MetadataPath(path)].data
                      ELSE chunks
         /\ UNCHANGED <<collection, pinecone, chunks_map, table, files>>

\* save / load of the auto-persisting variants only print
NoOp == UNCHANGED <<store, files>>

\* vector_db.save(path)
StoreSave(path) == IF provider = "faiss" THEN FaissSave(path) ELSE NoOp
\* vector_db.load(path)
StoreLoad(path) == IF provider = "faiss" THEN FaissLoad(path) ELSE NoOp
StoreLoadRaises(path) == provider = "faiss" /\ FaissLoadRaises(path)

\* the record of a save or load call, with the path it was given
PathCall(op, ok, path) ==
    [op |-> op, ok |-> ok, ids |-> <<>>, results |-> <<>>, width |-> 0, aligned |-> TRUE,
     path |-> path]

Save(path) ==
    /\ StoreSave(path)
    /\ last' = PathCall("save", TRUE, path)
    /\ TimePasses
    /\ UNCHANGED <<pure, inflight, provider, index_type, issued, since_reset, app>>

Load(path) ==
    /\ StoreLoad(path)
    /\ last' = PathCall("load", ~StoreLoadRaises(path), path)
    /\ since_reset' = IF provider = "faiss" /\ ~StoreLoadRaises(path) /\ since_reset = "yes"
                      THEN "loaded" ELSE since_reset
    /\ TimePasses
    /\ UNCHANGED <<pure, inflight, provider, index_type, issued, app>>

\* a reset that forgets the chunk records and keeps the vectors
MutFaissReset ==
    /\ index' = index
    /\ chunks' = <<>>
    /\ UNCHANGED <<collection, pinecone, chunks_map, table>>

\* FAISSDatabase.reset: self.index.reset(); self.chunks = []
FaissReset ==
    /\ index' = <<>>
    /\ chunks' = <<>>
    /\ UNCHANGED <<collection, pinecone, chunks_map, table>>

\* ChromaDBDatabase.reset: delete the collection and create it anew
ChromaReset ==
    /\ collection' = [dim |-> 0, rows |-> <<>>]
    /\ UNCHANGED <<index, chunks, pinecone, chunks_map, table>>

\* PineconeDatabase.reset: index.delete(delete_all=True); self.chunks_map = {}
PineconeReset ==
    /\ pinecone' = <<>>
    /\ chunks_map' = <<>>
    /\ UNCHANGED <<index, chunks, collection, table>>

\* PgVectorDatabase.reset: DELETE FROM table
PgReset ==
    /\ table' = <<>>
    /\ UNCHANGED <<index, chunks, collection, pinecone, chunks_map>>

\* vector_db.reset()
StoreReset ==
    CASE provider = "faiss"    -> FaissReset
      [] provider = "chromadb" -> ChromaReset
      [] provider = "pinecone" -> PineconeReset
      [] provider = "pgvector" -> PgReset

Reset ==
    /\ StoreReset
    /\ last' = Call("reset", TRUE, <<>>, <<>>, 0, TRUE)
    /\ since_reset' = "yes"
    /\ TimePasses
    /\ UNCHANGED <<pure, inflight, provider, index_type, files, issued, app>>

(***************************************************************************)
(* The store contract as a state machine.                                  *)
(***************************************************************************)
\* the state after the constructors: an empty store of the configured variant
Init ==
    /\ provider \in Providers
    /\ index_type \in (IF provider = "faiss" THEN IndexTypes ELSE {"IndexFlatL2"})
    /\ index = <<>>
    /\ chunks = <<>>
    /\ collection = [dim |-> 0, rows |-> <<>>]
    /\ pinecone = <<>>
    /\ chunks_map = <<>>
    /\ table = <<>>
    /\ files = [f \in FilePaths |-> NoFile]
    /\ now = 0
    /\ issued = {}
    /\ since_reset = "no"
    /\ last = Call("init", TRUE, <<>>, <<>>, 0, TRUE)
    /\ document_counter = 0
    /\ calls = <<>>
    /\ response = [handler |-> "none", status |-> 0, detail |-> "", body |-> [none |-> TRUE]]
    /\ inflight = <<>>
    /\ args = [fn |-> "none"]
    /\ result = [called |-> FALSE]

StoreNext ==
    \/ \E embeddings \in Matrices,
          texts \in SeqsOf(Texts, 1, MaxBatch),
          metadata \in SeqsOf(Metas, 1, MaxBatch) : Add(embeddings, texts, metadata)
    \/ \E query_embedding \in Queries, top_k \in 1..MaxTopK :
          DoSearch(query_embedding, top_k)
    \/ Save(PersistPath)
    \/ Load(PersistPath)
    \/ Reset

StoreSpec == Init /\ [][StoreNext]_vars

(***************************************************************************)
(* Claims about the store contract (checked under StoreSpec).              *)
(***************************************************************************)
\* the entries a search can hand back, as (id, text, metadata), in store order
Entries ==
    CASE provider = "faiss"    ->
            [i \in DOMAIN chunks |-> [id |-> chunks[i].id, text |-> chunks[i].text,
                                      metadata |-> chunks[i].metadata]]
      [] provider = "chromadb" ->
            [i \in DOMAIN collection.rows |->
                [id |-> collection.rows[i].id, text |-> collection.rows[i].document,
                 metadata |-> collection.rows[i].metadata]]
      [] provider = "pinecone" ->
            [i \in DOMAIN pinecone |->
                [id |-> pinecone[i].id, text |-> PopText(pinecone[i].metadata),
                 metadata |-> WithoutText(pinecone[i].metadata)]]
      [] provider = "pgvector" ->
            [i \in DOMAIN table |-> [id |-> table[i].id, text |-> table[i].text,
                                     metadata |-> table[i].metadata]]

\* C1: an add call that fails leaves the store exactly as it was before the
\* call: nothing of the failed batch is stored, counted or searchable.
C1_FailedAddLeavesStore ==
    [][(last'.op = "add" /\ ~last'.ok) =>
          /\ store' = store
          /\ TotalVectors' = TotalVectors
          /\ Entries' = Entries]_vars

\* C2: add with vectors whose width is not the store's dimension fails, and
\* search with a query of another width fails or never reaches a stored
\* vector (the store is empty).
C2_WidthMismatchFails ==
    /\ (last.op = "add" /\ last.width # Dim) => ~last.ok
    /\ (last.op = "search" /\ last.width # Dim) => (~last.ok \/ TotalVectors = 0)

\* C3: the results of a search are ordered best match first: the similarity
\* scores are non-increasing along the sequence, for every variant and
\* index_type.
C3_SearchOrdered ==
    (last.op = "search" /\ last.ok) =>
        \A i, j \in DOMAIN last.results :
            i < j => RatLeq(last.results[j].similarity, last.results[i].similarity)

\* C4: no id returned by an add (called within its preconditions) was
\* returned by an earlier add on the same store, reset or no reset in between.
C4_IdsNeverReused ==
    [][(last'.op = "add" /\ last'.ok /\ last'.aligned) =>
          Range(last'.ids) \cap issued = {}]_vars

\* C5: a successful add of n entries (n vectors, n texts, n metadatas) makes
\* total_vectors grow by exactly n and leaves every entry stored earlier with
\* its id, text and metadata.
C5_AddOnlyAppends ==
    [][(last'.op = "add" /\ last'.ok /\ last'.aligned) =>
          /\ TotalVectors' = TotalVectors + Len(last'.ids)
          /\ \A i \in DOMAIN Entries : i \in DOMAIN Entries' /\ Entries'[i] = Entries[i]]_vars

\* the store answers every query of its own width with the empty sequence
AllSearchesEmpty ==
    \A q \in {v \in Queries : Len(v) = Dim}, top_k \in 1..MaxTopK :
        Search(q, top_k) = Returned(TRUE, <<>>)

\* C6 as claimed: from a reset until an add succeeds, total_vectors is 0 and
\* every search returns the empty sequence.
C6_EmptyUntilAdd ==
    since_reset \in {"yes", "loaded"} => (TotalVectors = 0 /\ AllSearchesEmpty)

\* C6 as amended: from a reset until an add succeeds or the in-memory index
\* is loaded from disk, total_vectors is 0 and every search returns the empty
\* sequence, whatever add, save, load and search calls came before the reset.
C6_EmptyUntilAddOrLoad ==
    since_reset = "yes" => (TotalVectors = 0 /\ AllSearchesEmpty)

\* C6 witness: a store that had entries added and saved was reset and then
\* searched
C6_Witness ==
    /\ since_reset = "yes"
    /\ issued # {}
    /\ Exists(PersistPath)
    /\ last.op = "search"
    /\ last.ok
    /\ last.results = <<>>

(***************************************************************************)
(* app.py: what the handlers compute with.                                 *)
(***************************************************************************)
\* uploads admitted before the document counter stops the model
MaxDocs == 2

\* RAG_CONFIG["similarity_threshold"] = 0.15
similarity_threshold == Rat(15, 100)

\* DOCUMENT_CONFIG["supported_formats"]
supported_formats == {".pdf", ".docx", ".xlsx", ".txt"}

\* file names, split at the dots
Filenames ==
    {<<"a", "pdf">>, <<"a", "docx">>, <<"a", "xlsx">>, <<"a", "xls">>, <<"a", "TXT">>,
     <<"a", "exe">>, <<"a">>}

\* str.lower on the extensions of the model
Lower(name) == IF name = "TXT" THEN "txt" ELSE name

\* get_file_info: filename.split('.')[-1].lower() if '.' in filename else 'unknown'
Extension(filename) ==
    IF Len(filename) > 1 THEN Lower(filename[Len(filename)]) ELSE "unknown"

\* extension = f".{file_info['extension']}"
Dotted(extension) ==
    CASE extension = "pdf"  -> ".pdf"
      [] extension = "docx" -> ".docx"
      [] extension = "xlsx" -> ".xlsx"
      [] extension = "xls"  -> ".xls"
      [] extension = "txt"  -> ".txt"
      [] OTHER              -> ".unknown"

\* the characters str.strip removes
Whitespace == {" ", "\t", "\n"}

RECURSIVE LStrip(_)
LStrip(s) == IF s # <<>> /\ Head(s) \in Whitespace THEN LStrip(Tail(s)) ELSE s

RECURSIVE RStrip(_)
RStrip(s) ==
    IF s # <<>> /\ s[Len(s)] \in Whitespace THEN RStrip(SubSeq(s, 1, Len(s) - 1)) ELSE s

\* str.strip, on a string given as its sequence of characters
Strip(s) == RStrip(LStrip(s))

\* request.question
Questions == {<<>>, <<" ">>, <<"\t", "\n">>, <<"q">>, <<" ", "r", " ">>, <<"2", "c", "r">>}

(***************************************************************************)
(* normalize_query: six re.sub passes over the text, then strip.  A text   *)
(* is the sequence of its characters; a pattern is given by the operator   *)
(* that tells where its match starting at position i ends (0: no match),   *)
(* found as the regex engine finds it, greedy choices first.               *)
(***************************************************************************)
Digits == {"0", "1", "2", "3", "4", "5", "6", "7", "8", "9"}
LowerCase == {"a", "b", "c", "d", "e", "f", "g", "h", "i", "j", "k", "l", "m",
              "n", "o", "p", "q", "r", "s", "t", "u", "v", "w", "x", "y", "z"}
\* the upper-case letters, each with its lower-case form
UpperCase ==
    [A |-> "a", B |-> "b", C |-> "c", D |-> "d", E |-> "e", F |-> "f", G |-> "g",
     H |-> "h", I |-> "i", J |-> "j", K |-> "k", L |-> "l", M |-> "m", N |-> "n",
     O |-> "o", P |-> "p", Q |-> "q", R |-> "r", S |-> "s", T |-> "t", U |-> "u",
     V |-> "v", W |-> "w", X |-> "x", Y |-> "y", Z |-> "z"]

\* the lower-case form of a character (re.IGNORECASE compares these)
ToLower(c) == IF c \in DOMAIN UpperCase THEN UpperCase[c] ELSE c

\* \w: a letter, a digit or the underscore
IsWord(c) == c \in Digits \/ c = "_" \/ ToLower(c) \in LowerCase

\* the character at position i, "" outside the text
At(text, i) == IF i \in DOMAIN text THEN text[i] ELSE ""

\* \b after position i: exactly one of the characters at i and i + 1 is a
\* word character
Boundary(text, i) == IsWord(At(text, i)) # IsWord(At(text, i + 1))

RECURSIVE SkipSpaces(_, _)
\* \s*: the position of the last of the whitespace characters from i on
\* (i - 1 when there is none)
SkipSpaces(text, i) ==
    IF At(text, i) \in Whitespace THEN SkipSpaces(text, i + 1) ELSE i - 1

\* the literal `word` at positions i.., compared as the flag says; the
\* position of its last character, or 0
Literal(text, i, word, ignorecase) ==
    IF /\ i >= 1
       /\ i + Len(word) - 1 <= Len(text)
       /\ \A n \in DOMAIN word :
             IF ignorecase THEN ToLower(text[i + n - 1]) = ToLower(word[n])
             ELSE text[i + n - 1] = word[n]
    THEN i + Len(word) - 1
    ELSE 0

\* one of the characters of `class` at position i
OneOf(text, i, class) == IF At(text, i) \in class THEN i ELSE 0

\* an optional literal, taken when it is there
Optional(text, i, word, ignorecase) ==
    IF Literal(text, i, word, ignorecase) # 0 THEN Literal(text, i, word, ignorecase)
    ELSE i - 1

\* a candidate end that \b accepts, or 0
Bounded(text, e) == IF e # 0 /\ Boundary(text, e) THEN e ELSE 0

\* the first of the candidate ends, in the engine's order, that is a match
FirstMatch(ends) ==
    LET matches == SelectSeq(ends, LAMBDA e : e # 0)
    IN  IF matches = <<>> THEN 0 ELSE Head(matches)

\* (\d)\s* at position i: the position of the last whitespace, or 0
DigitSpaces(text, i) ==
    IF At(text, i) \in Digits THEN SkipSpaces(text, i + 1) ELSE 0

\* (\d)\s*[Bb][Hh][Kk]
MatchBhk(text, i) ==
    IF DigitSpaces(text, i) = 0 THEN 0
    ELSE Literal(text, DigitSpaces(text, i) + 1, <<"b", "h", "k">>, TRUE)

\* (\d)\s*(?:sq\.?\s*ft\.?|sqft), re.IGNORECASE
MatchSqft(text, i) ==
    IF DigitSpaces(text, i) = 0 THEN 0
    ELSE LET sq    == Literal(text, DigitSpaces(text, i) + 1, <<"s", "q">>, TRUE)
             dot   == Optional(text, sq + 1, <<".">>, TRUE)
             ft    == Literal(text, SkipSpaces(text, dot + 1) + 1, <<"f", "t">>, TRUE)
             sqft  == Literal(text, DigitSpaces(text, i) + 1, <<"s", "q", "f", "t">>, TRUE)
         IN  IF sq = 0 THEN 0
             ELSE IF ft # 0 THEN Optional(text, ft + 1, <<".">>, TRUE)
             ELSE sqft

\* head(?:tail s?)?\.?\b after (\d)\s*, where head is matched in either
\* case and the tail in lower case only: the engine tries the tail with the
\* s, then without it, then no tail, each first with the dot and then
\* without it.  The local functions give, for the position where a part of
\* the pattern ended, the candidate ends of the rest in the engine's order.
MatchUnit(text, i, head, tail) ==
    LET WithDot[e \in Nat] ==
            IF e = 0 THEN <<>>
            ELSE <<Bounded(text, Literal(text, e + 1, <<".">>, FALSE)), Bounded(text, e)>>
        AfterTail[t \in Nat] ==
            IF t = 0 THEN <<>>
            ELSE WithDot[Literal(text, t + 1, <<"s">>, FALSE)] \o WithDot[t]
        AfterHead[h \in Nat] ==
            IF h = 0 THEN <<>>
            ELSE AfterTail[Literal(text, h + 1, tail, FALSE)] \o WithDot[h]
        AfterDigit[d \in Nat] ==
            IF d = 0 THEN <<>> ELSE AfterHead[Literal(text, d + 1, head, TRUE)]
    IN  FirstMatch(AfterDigit[DigitSpaces(text, i)])

\* (\d)\s*[Cc][Rr](?:ores?)?\.?\b
MatchCrore(text, i) == MatchUnit(text, i, <<"c", "r">>, <<"o", "r", "e">>)

\* (\d)\s*[Ll](?:akhs?)?\.?\b
MatchLakh(text, i) == MatchUnit(text, i, <<"l">>, <<"a", "k", "h">>)

\* (?:INR|inr)\s*
MatchInr(text, i) ==
    IF Literal(text, i, <<"I", "N", "R">>, FALSE) # 0 \/ Literal(text, i, <<"i", "n", "r">>, FALSE) # 0
    THEN SkipSpaces(text, i + 3)
    ELSE 0

\* [Rr][Ss]\.?\s*(\d)
MatchRs(text, i) ==
    LET rs  == Literal(text, i, <<"r", "s">>, TRUE)
        dot == Optional(text, rs + 1, <<".">>, FALSE)
    IN  IF rs = 0 THEN 0 ELSE OneOf(text, SkipSpaces(text, dot + 1) + 1, Digits)

\* the six patterns of normalize_query, in the order of its passes
Patterns == <<"bhk", "sqft", "crore", "lakh", "inr", "rs">>

\* where the match of a pattern that starts at position i ends (0: no match)
Match(pattern, text, i) ==
    CASE pattern = "bhk"   -> MatchBhk(text, i)
      [] pattern = "sqft"  -> MatchSqft(text, i)
      [] pattern = "crore" -> MatchCrore(text, i)
      [] pattern = "lakh"  -> MatchLakh(text, i)
      [] pattern = "inr"   -> MatchInr(text, i)
      [] pattern = "rs"    -> MatchRs(text, i)

\* r'\1 Crores' without the digit
CroreUnit == <<" ", "C", "r", "o", "r", "e", "s">>

\* the replacement of the match at positions i..e: \1 is the digit the
\* pattern captured
Repl(pattern, text, i, e) ==
    CASE pattern = "bhk"   -> <<text[i], " ", "B", "H", "K">>
      [] pattern = "sqft"  -> <<text[i], " ", "s", "q", ".", "f", "t", ".">>
      [] pattern = "crore" -> <<text[i]>> \o CroreUnit
      [] pattern = "lakh"  -> <<text[i], " ", "L", "a", "k", "h", "s">>
      [] pattern = "inr"   -> <<"R", "s", ".", " ">>
      [] pattern = "rs"    -> <<"R", "s", ".", " ", text[e]>>

\* re.sub(pattern, repl, text): the matches from left to right, none
\* overlapping another, each replaced; rest[i] is the result from position
\* i on, and step[e] what position i contributes when the match that starts
\* there ends at e (0: no match)
Sub(pattern, text) ==
    LET rest[i \in Nat] ==
            IF i > Len(text) THEN <<>>
            ELSE LET step[e \in Nat] ==
                         IF e # 0 THEN Repl(pattern, text, i, e) \o rest[e + 1]
                         ELSE <<text[i]>> \o rest[i + 1]
                 IN  step[Match(pattern, text, i)]
    IN  rest[1]

RECURSIVE Passes(_, _)
\* the passes from the n-th on, each over the result of the one before
\* (`done` is the text after the n-th pass)
Passes(text, n) ==
    IF n > Len(Patterns) THEN text
    ELSE CHOOSE out \in {Passes(done, n + 1) : done \in {Sub(Patterns[n], text)}} : TRUE

normalize_query(query) ==
    CHOOSE out \in {Strip(text) : text \in {Passes(query, 1)}} : TRUE

\* the questions of the model, each with what normalize_query makes of it
NormalizedQuestions ==
    {[question |-> question, normalized_question |-> normalize_query(question)] :
        question \in Questions}

\* embedder.embed(text): the embedding model is a function of the text and
\* returns vectors of the width the store was built with
Embedding(text) ==
    CASE text = "a"     -> Vec(1, 0, Dim)
      [] text = "b"     -> Vec(0, 1, Dim)
      [] text = <<"q">> -> Vec(1, 0, Dim)
      [] OTHER          -> Vec(3, 4, Dim)

\* embedder.embed(chunks)
Embed(texts) == [i \in DOMAIN texts |-> Embedding(texts[i])]

\* the fixed answer of the response without sources
NoRelevantAnswer ==
    "I couldn't find relevant information for your query. Please try rephrasing your question or upload related documents."

\* what the LLM may write
LlmAnswers == {"generated answer"}

\* round(score, 3) of a score n / d: the nearest multiple of 1/1000, a tie
\* going to the even one
RoundMilli(score) ==
    LET q    == (1000 * score.n) \div score.d
        rem2 == 2 * (1000 * score.n - q * score.d)
    IN  Rat(IF rem2 < score.d THEN q
            ELSE IF rem2 > score.d THEN q + 1
            ELSE IF q % 2 = 0 THEN q ELSE q + 1, 1000)

\* metadata.get(key, default)
Get(metadata, key, default) ==
    IF key \in DOMAIN metadata THEN metadata[key] ELSE default

\* one step of a handler: its name, whether it returned (ok) or raised, and
\* the value it worked on or produced
Ran(step, ok, arg) == [step |-> step, ok |-> ok, arg |-> arg]

NoBody == [none |-> TRUE]

\* what the caller receives: the HTTP status, the detail of an HTTPException
\* and the body of a 200 response
Response(handler, status, detail, body) ==
    [handler |-> handler, status |-> status, detail |-> detail, body |-> body]

\* the outcome of a handler run: the steps it took and its response
Handled(steps, resp) == [calls |-> steps, response |-> resp]

\* the backend of the in-memory index is the process itself; the other
\* variants call a service that may fail
Remote == provider # "faiss"

(***************************************************************************)
(* POST /query                                                             *)
(***************************************************************************)
\* a validation that tests the question without stripping it
MutQuestionRejected(question) == question = <<>>

\* if not request.question.strip()
QuestionRejected(question) == Strip(question) = <<>>

\* if stats.get("total_vectors", 0) == 0
KnowledgeBaseEmpty == TotalVectors = 0

\* a filter with the comparison turned around
MutPassesThreshold(similarity) == RatLess(similarity, similarity_threshold)

\* r[3] > similarity_threshold
PassesThreshold(similarity) == RatLess(similarity_threshold, similarity)

\* a handler without the early return
MutShortCircuits(results) == FALSE

\* if not results
ShortCircuits(results) == results = <<>>

\* a handler that carries on after a statement raised
MutAborts(raised) == FALSE

\* an exception leaves the try block at the statement that raised it and
\* becomes the HTTP error of the except clauses
Aborts(raised) == raised

\* a handler that hands the normalized question to the answer generation
MutAnsweredQuestion(question, normalized_question) == normalized_question

\* generate_answer(llm_client, request.question, results): the question as
\* the caller wrote it, not normalized_question
AnsweredQuestion(question, normalized_question) == question

\* the sources of the response, one for each surviving result
Sources(results) ==
    [i \in DOMAIN results |->
        [text             |-> results[i].text,   \* shorter than 200 characters
         filename         |-> Get(results[i].metadata, "filename", "Unknown"),
         chunk_index      |-> Get(results[i].metadata, "chunk_index", 0),
         similarity_score |-> RoundMilli(results[i].similarity)]]

QueryResponse(question, answer, sources) ==
    Response("query", 200, "", [question |-> question, answer |-> answer, sources |-> sources])

QueryError(status, detail) == Response("query", status, detail, NoBody)

\* query_knowledge_base, statement by statement; `fault` names the call to
\* an outside service that fails during this request, if any
QueryRun(question, top_k, answer, fault) ==
    LET c1 == <<Ran("validate", ~QuestionRejected(question), question)>>
        c2 == Append(c1, Ran("get_stats", fault # "get_stats", <<>>))
        c3 == Append(c2, Ran("normalize_query", TRUE, question))
        \* the handler from the embedding on, given
        \* normalized_question = normalize_query(request.question)
        Embedded(normalized_question) ==
            LET query_embedding == Embedding(normalized_question)
                found    == Search(query_embedding, top_k)
                searched == found.ok /\ fault # "search"
                results  == SelectSeq(found.results, LAMBDA r : PassesThreshold(r.similarity))
                c4 == Append(c3, Ran("embed", fault # "embed", normalized_question))
                c5 == Append(c4, Ran("search", searched, IF searched THEN found.results ELSE <<>>))
                c6 == Append(c5, Ran("filter", TRUE, results))
                c7 == Append(c6, Ran("generate_answer", fault # "generate_answer",
                                     AnsweredQuestion(question, normalized_question)))
            IN  IF Aborts(fault = "embed")
                THEN Handled(c4, QueryError(500, "Query error"))
                ELSE IF Aborts(~searched)
                THEN Handled(c5, QueryError(500, "Query error"))
                ELSE IF ShortCircuits(results)
                THEN Handled(Append(c6, Ran("respond", TRUE, <<>>)),
                             QueryResponse(question, NoRelevantAnswer, <<>>))
                ELSE IF Aborts(fault = "generate_answer")
                THEN Handled(c7, QueryError(500, "Query error"))
                ELSE Handled(Append(c7, Ran("respond", TRUE, <<>>)),
                             QueryResponse(question, answer, Sources(results)))
    IN  IF Aborts(QuestionRejected(question))
        THEN Handled(c1, QueryError(400, "Question cannot be empty"))
        ELSE IF Aborts(fault = "get_stats")
        THEN Handled(c2, QueryError(500, "Query error"))
        ELSE IF Aborts(KnowledgeBaseEmpty)
        THEN Handled(c2, QueryError(400, "No documents in knowledge base. Please upload documents first."))
        ELSE CHOOSE run \in {Embedded(normalized_question) :
                                normalized_question \in {normalize_query(question)}} : TRUE

\* the calls to outside services a query can see fail
QueryFaults ==
    {"embed", "generate_answer"} \cup (IF Remote THEN {"get_stats", "search"} ELSE {})

\* the requests of the model: the question, top_k, what the LLM would
\* answer, and the call to an outside service that fails during the
\* request, if any
QueryRequests ==
    LET Req(question, top_k, answer, fault) ==
            [question |-> question, top_k |-> top_k, answer |-> answer, fault |-> fault]
    IN  {Req(q, k, a, "none") : q \in Questions, k \in 1..MaxTopK, a \in LlmAnswers}
        \cup {Req(q, MaxTopK, a, x) :
                q \in {<<>>, <<"q">>}, a \in LlmAnswers, x \in QueryFaults}

Query(question, top_k, answer, fault) ==
    /\ \E run \in {QueryRun(question, top_k, answer, fault)} :
          /\ calls' = run.calls
          /\ response' = run.response
    /\ UNCHANGED <<pure, inflight, provider, index_type, store, files, now, issued, since_reset, last,
                   document_counter>>

(***************************************************************************)
(* POST /upload                                                            *)
(***************************************************************************)
\* DOCUMENT_CONFIG["max_file_size_mb"]
max_file_size_mb == 50
\* the bytes of a megabyte: 1024 * 1024
BytesPerMb == 1048576

\* len(file_bytes): a small file, one of exactly the maximum, and one byte more
FileSizes == {1, max_file_size_mb * BytesPerMb, max_file_size_mb * BytesPerMb + 1}

\* a size test that drops the fraction of a megabyte
MutValidateFileSize(file_size, max_size_mb) == file_size \div BytesPerMb <= max_size_mb

\* validate_file_size: len(file_bytes) / (1024 * 1024) <= max_size_mb
validate_file_size(file_size, max_size_mb) == file_size <= max_size_mb * BytesPerMb

\* doc_id = f"doc_{document_counter['count']}_{int(time.time())}"
DocId(count, time) == <<"doc", count, time>>

\* the metadata list of an upload, one map for each chunk
Metadata(filename, doc_id, n) ==
    [i \in 1..n |-> [filename |-> filename, document_id |-> doc_id, chunk_index |-> i - 1,
                     total_chunks |-> n, upload_time |-> now]]

\* vector_db.add of an empty batch: index.add and collection.add raise on
\* it, an upsert or INSERT of no rows writes nothing
EmptyAddRaises == provider \in {"faiss", "chromadb"}

\* vector_db.add when the service refuses the write: PineconeDatabase.add
\* has filled chunks_map by then
StoreAddRefused(embeddings, texts, metadata) ==
    IF provider = "pinecone"
    THEN /\ chunks_map' = PutAll(chunks_map, TimestampIds(now, Len(embeddings)), texts, metadata)
         /\ UNCHANGED <<index, chunks, collection, pinecone, table>>
    ELSE UNCHANGED store

UploadError(status, detail) == Response("upload", status, detail, NoBody)

\* upload_document up to its return, statement by statement: the steps taken,
\* the status, whether line 166 was reached (counted) and how vector_db.add
\* ended ("none" when it was not called)
UploadRun(filename, file_size, extracted, texts, fault) ==
    LET Out(steps, status, detail, counted, add) ==
            [calls |-> steps, status |-> status, detail |-> detail, counted |-> counted,
             add |-> add]
        extension == Dotted(Extension(filename))
        size_ok == validate_file_size(file_size, max_file_size_mb)
        added == IF fault = "add" THEN "refused"
                 ELSE IF texts = <<>> THEN (IF EmptyAddRaises THEN "raised" ELSE "empty")
                 ELSE "stored"
        c1 == <<Ran("validate_file_size", size_ok, [filename |-> filename, size |-> file_size])>>
        c2 == Append(c1, Ran("check_format", extension \in supported_formats, extension))
        c3 == Append(c2, Ran("parse", fault # "parse", filename))
        c4 == Append(c3, Ran("check_text", extracted # "blank", extracted))
        c5 == Append(c4, Ran("chunk_text", TRUE, texts))
        c6 == Append(c5, Ran("embed", fault # "embed", texts))
        c7 == Append(c6, Ran("count", TRUE, document_counter + 1))
        c8 == Append(c7, Ran("add", added \in {"stored", "empty"}, texts))
        c9 == Append(c8, Ran("get_stats", fault # "get_stats", <<>>))
    IN  IF ~size_ok THEN Out(c1, 413, "File too large", FALSE, "none")
        ELSE IF extension \notin supported_formats
        THEN Out(c2, 400, "Unsupported file type", FALSE, "none")
        ELSE IF fault = "parse" THEN Out(c3, 500, "Processing error", FALSE, "none")
        ELSE IF extracted = "blank"
        THEN Out(c4, 400, "No text could be extracted from the document", FALSE, "none")
        ELSE IF fault = "embed" THEN Out(c6, 500, "Processing error", FALSE, "none")
        ELSE IF added \in {"refused", "raised"}
        THEN Out(c8, 500, "Processing error", TRUE, added)
        ELSE IF fault = "get_stats" THEN Out(c9, 500, "Processing error", TRUE, added)
        ELSE Out(Append(c9, Ran("respond", TRUE, <<>>)), 200, "", TRUE, added)

\* the requests of the model: the file name, the size of the file in
\* bytes, whether the parser finds text in it, the chunks that
\* clean_text and chunk_text make of the text, and the call to an outside
\* service that fails during the request, if any
UploadRequests ==
    LET Req(filename, file_size, extracted, texts, fault) ==
            [filename |-> filename, file_size |-> file_size, extracted |-> extracted,
             texts |-> texts, fault |-> fault]
    IN  {Req(<<"a", "pdf">>, n, "blank", <<>>, "none") : n \in FileSizes}
        \cup {Req(<<"a", "pdf">>, max_file_size_mb * BytesPerMb + 1, "text", <<"a">>, "none")}
        \cup {Req(f, 1, "blank", <<>>, "none") : f \in Filenames}
        \cup {Req(f, 1, "text", <<>>, "parse") : f \in Filenames}
        \cup {Req(<<"a", "pdf">>, 1, "text", t, x) :
                t \in SeqsOf(Texts, 0, MaxBatch),
                x \in {"none", "embed"} \cup (IF Remote THEN {"add", "get_stats"} ELSE {})}

Upload(filename, file_size, extracted, texts, fault) ==
    LET run        == UploadRun(filename, file_size, extracted, texts, fault)
        embeddings == Embed(texts)
        doc_id     == DocId(document_counter + 1, now)
        metadata   == Metadata(filename, doc_id, Len(texts))
    IN  /\ document_counter < MaxDocs
        /\ StoreSize + Len(texts) <= MaxVectors
        /\ UNCHANGED <<pure, inflight, provider, index_type, files, issued, since_reset, last>>
        /\ calls' = run.calls
        /\ document_counter' = IF run.counted THEN document_counter + 1 ELSE document_counter
        /\ CASE run.add = "stored"  -> StoreAdd(embeddings, texts, metadata)
             [] run.add = "refused" -> StoreAddRefused(embeddings, texts, metadata)
             [] OTHER               -> UNCHANGED store
        /\ response' =
              IF run.status = 200
              THEN Response("upload", 200, "Document processed successfully",
                            [document_id |-> doc_id, filename |-> filename,
                             chunks_added |-> Len(texts), total_chunks |-> TotalVectors'])
              ELSE UploadError(run.status, run.detail)
        /\ TimePasses

(***************************************************************************)
(* DELETE /reset, POST /save, POST /load                                   *)
(***************************************************************************)
\* reset_database: vector_db.reset(), then document_counter["count"] = 0
ResetDatabase(fault) ==
    /\ IF fault = "reset"
       THEN /\ UNCHANGED <<store, document_counter>>
            /\ calls' = <<Ran("reset", FALSE, <<>>)>>
            /\ response' = Response("reset", 500, "Reset error", NoBody)
       ELSE /\ StoreReset
            /\ document_counter' = 0
            /\ calls' = <<Ran("reset", TRUE, <<>>)>>
            /\ response' = Response("reset", 200, "Vector database reset successfully",
                                    [total_documents |-> 0, total_chunks |-> 0])
    /\ now' = now
    /\ UNCHANGED <<pure, inflight, provider, index_type, files, issued, since_reset, last>>

\* save_database: vector_db.save(persist_path) for the in-memory index, a
\* fixed message for the other variants
SaveDatabase ==
    /\ IF provider = "faiss" THEN StoreSave(PersistPath) ELSE UNCHANGED <<store, files>>
    /\ calls' = IF provider = "faiss" THEN <<Ran("save", TRUE, PersistPath)>> ELSE <<>>
    /\ response' = Response("save", 200,
                            IF provider = "faiss" THEN "Database saved"
                            ELSE IF provider = "chromadb" THEN "ChromaDB auto-persists data"
                            ELSE "cloud-based, auto-persists",
                            IF provider = "pinecone" \/ provider = "pgvector"
                            THEN [status |-> "info"] ELSE [status |-> "success"])
    /\ now' = now
    /\ UNCHANGED <<pure, inflight, provider, index_type, issued, since_reset, last, document_counter>>

\* load_database: vector_db.load(persist_path) and get_stats for the
\* in-memory index, a fixed message for the other variants; whatever load
\* raises becomes the 500 of the except clause
LoadDatabase ==
    /\ UNCHANGED <<pure, inflight, provider, index_type, issued, since_reset, last, document_counter>>
    /\ IF provider = "faiss" THEN StoreLoad(PersistPath) ELSE UNCHANGED <<store, files>>
    /\ calls' = IF provider = "faiss"
                THEN <<Ran("load", ~StoreLoadRaises(PersistPath), PersistPath)>> ELSE <<>>
    /\ response' =
          IF provider = "faiss" /\ StoreLoadRaises(PersistPath)
          THEN Response("load", 500,
                        IF Exists(PersistPath) THEN "Load error"
                        ELSE "Load error: FAISS index not found", NoBody)
          ELSE IF provider = "faiss"
          THEN Response("load", 200, "Database loaded",
                        [status |-> "success", total_vectors |-> TotalVectors'])
          ELSE Response("load", 200,
                        IF provider = "chromadb"
                        THEN "ChromaDB auto-loads data on initialization"
                        ELSE "cloud-based, auto-loads",
                        IF provider = "chromadb"
                        THEN [status |-> "success"] ELSE [status |-> "info"])
    /\ now' = now

(***************************************************************************)
(* The server as a state machine: one request at a time, each handler      *)
(* running to its return.                                                  *)
(***************************************************************************)
Next ==
    \/ \E r \in UploadRequests :
          Upload(r.filename, r.file_size, r.extracted, r.texts, r.fault)
    \/ \E r \in QueryRequests : Query(r.question, r.top_k, r.answer, r.fault)
    \/ \E fault \in {"none"} \cup (IF Remote THEN {"reset"} ELSE {}) : ResetDatabase(fault)
    \/ SaveDatabase
    \/ LoadDatabase

Spec == Init /\ [][Next]_vars

(***************************************************************************)
(* Claims about the query handler (checked under Spec).  After a request   *)
(* `calls` holds the steps its handler took and `response` what the caller *)
(* received; the store is as the request left it.                          *)
(***************************************************************************)
\* the names of the steps of the last request, in the order taken
Steps == [i \in DOMAIN calls |-> calls[i].step]
Took(step) == \E i \in DOMAIN calls : calls[i].step = step

\* the last request was a query with this question
Asked == calls[1].arg
Blank(question) == \A i \in DOMAIN question : question[i] \in Whitespace

\* the candidates the search of the last query returned
Candidates == calls[5].arg
AboveThreshold(r) == r.similarity.n * 100 > 15 * r.similarity.d

\* C7: a query with an empty or whitespace-only question gets the 400
\* "Question cannot be empty", a query that finds total_vectors = 0 gets the
\* 400 "No documents in knowledge base", and no query answered with one of
\* these took an embed, search or generate_answer step.
C7_RejectedBeforeEmbedding ==
    response.handler = "query" =>
        /\ Blank(Asked) =>
              /\ response.status = 400
              /\ response.detail = "Question cannot be empty"
        /\ (~Blank(Asked) /\ Took("get_stats") /\ calls[2].ok /\ TotalVectors = 0) =>
              /\ response.status = 400
              /\ response.detail = "No documents in knowledge base. Please upload documents first."
        /\ response.status = 400 =>
              ~(Took("embed") \/ Took("search") \/ Took("generate_answer"))

\* C7 witness: a whitespace-only question was asked of a store that holds
\* vectors, and was rejected
C7_Witness ==
    /\ response.handler = "query"
    /\ Asked # <<>>
    /\ Blank(Asked)
    /\ TotalVectors > 0
    /\ response.status = 400

C9_NoSurvivorFixedAnswer ==
    (/\ response.handler = "query"
     /\ Took("filter")
     /\ \A i \in DOMAIN Candidates : ~AboveThreshold(Candidates[i])) =>
        /\ response.status = 200
        /\ response.body = [question |-> Asked, answer |-> NoRelevantAnswer, sources |-> <<>>]
        /\ ~Took("generate_answer")

\* C9 witness: the search returned candidates, all were filtered out, and
\* the question had surrounding whitespace
C9_Witness ==
    /\ response.handler = "query"
    /\ Took("filter")
    /\ Candidates # <<>>
    /\ \A i \in DOMAIN Candidates : ~AboveThreshold(Candidates[i])
    /\ Asked # Strip(Asked)
    /\ response.status = 200

IsPrefix(s, t) == Len(s) <= Len(t) /\ \A i \in DOMAIN s : s[i] = t[i]

GenerateOrder ==
    <<"validate", "get_stats", "normalize_query", "embed", "search", "filter",
      "generate_answer", "respond">>
ShortCircuitOrder ==
    <<"validate", "get_stats", "normalize_query", "embed", "search", "filter", "respond">>

\* C10: the steps of a query are an initial part of validate, (stats,
\* normalize,) embed, search, filter, then generate_answer or nothing, then
\* respond, each taken once; a step that failed is the last one taken; the
\* response is a 200 exactly when the respond step was reached, and an error
\* carries no answer; generate_answer is skipped exactly when the filter
\* left nothing.
C10_StepsInOrderNoRetry ==
    response.handler = "query" =>
        /\ calls # <<>>
        /\ IsPrefix(Steps, GenerateOrder) \/ IsPrefix(Steps, ShortCircuitOrder)
        /\ \A i \in DOMAIN calls : ~calls[i].ok => (i = Len(calls) /\ response.status # 200)
        /\ response.status = 200 <=> Steps[Len(Steps)] = "respond"
        /\ response.status # 200 => response.body = NoBody
        /\ response.status = 200 => (Took("generate_answer") <=> calls[6].arg # <<>>)

\* C10 witness: answer generation failed after embed, search and filter had
\* run, and the caller received an error
C10_Witness ==
    /\ response.handler = "query"
    /\ Steps = SubSeq(GenerateOrder, 1, 7)
    /\ ~calls[7].ok
    /\ response.status = 500

(***************************************************************************)
(* document_parsers.chunk_text, on a text given as its sequence of         *)
(* characters.                                                             *)
(***************************************************************************)
\* the longest text that is chunked
MaxText == 6
\* the largest chunk_size
MaxChunkSize == 4
\* the largest overlap (it may reach and pass chunk_size)
MaxOverlap == MaxChunkSize

\* the characters of the texts: a letter, a sentence end and a blank
Alphabet == {"x", ".", " "}
\* the character class [.!?]
Terminators == {".", "!", "?"}

RECURSIVE SplitFrom(_, _, _, _)
\* re.split(r'(?<=[.!?])\s+', text): a run of whitespace that directly
\* follows a sentence end separates two pieces; `piece` is the piece being
\* read and `pieces` the ones before it
SplitFrom(text, i, piece, pieces) ==
    IF i > Len(text) THEN Append(pieces, piece)
    ELSE IF i > 1 /\ text[i] \in Whitespace /\ text[i - 1] \in Terminators
    THEN LET rest == {j \in i..Len(text) : text[j] \notin Whitespace}
             next == IF rest = {} THEN Len(text) + 1
                     ELSE CHOOSE j \in rest : \A k \in rest : j <= k
         IN  SplitFrom(text, next, <<>>, Append(pieces, piece))
    ELSE SplitFrom(text, i + 1, Append(piece, text[i]), pieces)

\* sentences = [s.strip() for s in sentences if s.strip()]
SplitSentences(text) ==
    LET pieces == SplitFrom(text, 1, <<>>, <<>>)
        kept   == SelectSeq(pieces, LAMBDA s : Strip(s) # <<>>)
    IN  [i \in DOMAIN kept |-> Strip(kept[i])]

RECURSIVE Join(_)
\* ' '.join(strings)
Join(strings) ==
    IF strings = <<>> THEN <<>>
    ELSE IF Len(strings) = 1 THEN strings[1]
    ELSE strings[1] \o <<" ">> \o Join(Tail(strings))

\* a budget test with the sentence left out of the sum
MutOverBudget(length, s, budget) == length > budget

\* if length + len(s) + 1 > budget
OverBudget(length, s, budget) == length + Len(s) + 1 > budget

RECURSIVE Carry(_, _, _, _, _, _)
\* the overlap loop: for s in reversed(current_sentences), sentences are put
\* in front of overlap_sentences until one does not fit the overlap budget.
\* A list of sentences is kept as the list of their positions in `sentences`.
Carry(sentences, current_sentences, k, overlap_sentences, overlap_length, overlap) ==
    IF k = 0 \/ OverBudget(overlap_length, sentences[current_sentences[k]], overlap)
    THEN [sentences |-> overlap_sentences, length |-> overlap_length]
    ELSE Carry(sentences, current_sentences, k - 1,
               <<current_sentences[k]>> \o overlap_sentences,
               overlap_length + Len(sentences[current_sentences[k]]) + 1, overlap)

\* a chunker that returns without its last buffer
MutLastChunk(chunk_list, current_sentences) == chunk_list

\* a chunker that appends its last buffer twice
MutLastChunkTwice(chunk_list, current_sentences) ==
    Append(Append(chunk_list, current_sentences), current_sentences)

\* if current_sentences: chunks.append(' '.join(current_sentences))
LastChunk(chunk_list, current_sentences) ==
    IF current_sentences # <<>> THEN Append(chunk_list, current_sentences) ELSE chunk_list

RECURSIVE ChunkLoop(_, _, _, _, _, _, _)
\* for sentence in sentences: ..., followed by the flush of the last buffer
ChunkLoop(sentences, i, chunk_list, current_sentences, current_length, chunk_size, overlap) ==
    IF i > Len(sentences) THEN LastChunk(chunk_list, current_sentences)
    ELSE LET sentence == sentences[i]
             full     == /\ OverBudget(current_length, sentence, chunk_size)
                         /\ current_sentences # <<>>
             carried  == Carry(sentences, current_sentences, Len(current_sentences),
                               <<>>, 0, overlap)
         IN  ChunkLoop(sentences, i + 1,
                       IF full THEN Append(chunk_list, current_sentences) ELSE chunk_list,
                       Append(IF full THEN carried.sentences ELSE current_sentences, i),
                       (IF full THEN carried.length ELSE current_length) + Len(sentence) + 1,
                       chunk_size, overlap)

\* chunk_text(text, chunk_size, overlap): the chunks it returns and, with
\* each, the positions of the sentences it was joined from
chunk_text(text, chunk_size, overlap) ==
    LET sentences == SplitSentences(text)
        runs      == IF sentences = <<>> THEN <<>>
                     ELSE ChunkLoop(sentences, 1, <<>>, <<>>, 0, chunk_size, overlap)
        joined    == [c \in DOMAIN runs |->
                         [text |-> Join([k \in DOMAIN runs[c] |-> sentences[runs[c][k]]]),
                          run  |-> runs[c]]]
        \* return [c for c in chunks if c.strip()]
        returned  == SelectSeq(joined, LAMBDA c : Strip(c.text) # <<>>)
    IN  [chunks |-> [c \in DOMAIN returned |-> returned[c].text],
         runs   |-> [c \in DOMAIN returned |-> returned[c].run]]

\* the texts, chunk sizes and overlaps chunk_text is applied to
ChunkArgs ==
    [fn : {"chunk_text"}, text : SeqsOf(Alphabet, 0, MaxText),
     chunk_size : 1..MaxChunkSize, overlap : 0..MaxOverlap]

ChunkText ==
    /\ args.fn = "chunk_text"
    /\ result = [called |-> FALSE]
    /\ result' = chunk_text(args.text, args.chunk_size, args.overlap)
    /\ UNCHANGED <<args, inflight, provider, index_type, store, files, now, issued,
                   since_reset, last, app>>

(***************************************************************************)
(* embeddings.get_embedding_provider and the dimensions of the provider it *)
(* constructs.                                                             *)
(***************************************************************************)
\* OpenAIEmbeddings.DIMENSION_MAP
DIMENSION_MAP ==
    [m \in {"text-embedding-3-small", "text-embedding-3-large", "text-embedding-ada-002"} |->
        IF m = "text-embedding-3-large" THEN 3072 ELSE 1536]

\* the models Cohere documents in CohereEmbeddings.__init__
CohereModels == {"embed-english-v3.0", "embed-multilingual-v3.0"}

\* what a constructor call ends in: an exception, or a provider whose
\* get_dimensions() returns `dimensions`
Raised(error) == [raised |-> TRUE, error |-> error, dimensions |-> 0]
Provider(dimensions) == [raised |-> FALSE, error |-> "", dimensions |-> dimensions]

\* OpenAIEmbeddings.__init__: self.dimensions = DIMENSION_MAP.get(model_name, 1536)
OpenAIEmbeddings(model_name, api_key) ==
    IF ~api_key THEN Raised("ValueError")
    ELSE Provider(IF model_name \in DOMAIN DIMENSION_MAP THEN DIMENSION_MAP[model_name]
                  ELSE 1536)

\* CohereEmbeddings.__init__: self.dimensions = 1024
CohereEmbeddings(model_name, api_key) ==
    IF ~api_key THEN Raised("ValueError") ELSE Provider(1024)

\* get_embedding_provider, for the cloud providers and an unknown one
get_embedding_provider(config) ==
    CASE config.provider = "openai" -> OpenAIEmbeddings(config.model, config.api_key)
      [] config.provider = "cohere" -> CohereEmbeddings(config.model, config.api_key)
      [] OTHER                      -> Raised("ValueError")

\* the configurations: the documented models, and two that are in no table
ProviderArgs ==
    [fn : {"get_embedding_provider"},
     provider : {"openai", "cohere", "azure"},
     model : DOMAIN DIMENSION_MAP \cup CohereModels \cup {"text-embedding-4", "embed-v4.0"},
     api_key : BOOLEAN]

GetEmbeddingProvider ==
    /\ args.fn = "get_embedding_provider"
    /\ result = [called |-> FALSE]
    /\ result' = get_embedding_provider(args)
    /\ UNCHANGED <<args, inflight, provider, index_type, store, files, now, issued,
                   since_reset, last, app>>

(***************************************************************************)
(* clean_text: six re.sub passes and the trimming of every line.  The      *)
(* markers the parsers insert are single symbols of the text.              *)
(***************************************************************************)
MaxCleanText == 6

\* "[Page 1]" and "[Table 1]" / "[Page 2 - Table 1]"
PageMarkers == {"[Page 1]"}
TableMarkers == {"[Table 1]", "[Page 2 - Table 1]"}

RECURSIVE RemoveMarkers(_, _, _)
\* re.sub(r'\[Page \d+\]\n?', '', text) and the like: the marker goes, and
\* the newline after it if there is one
RemoveMarkers(text, markers, i) ==
    IF i > Len(text) THEN <<>>
    ELSE IF text[i] \in markers
    THEN RemoveMarkers(text, markers, IF At(text, i + 1) = "\n" THEN i + 2 ELSE i + 1)
    ELSE <<text[i]>> \o RemoveMarkers(text, markers, i + 1)

RECURSIVE FixHyphenation(_, _)
\* re.sub(r'(\w)-\n(\w)', r'\1\2', text)
FixHyphenation(text, i) ==
    IF i > Len(text) THEN <<>>
    ELSE IF /\ IsWord(text[i]) /\ At(text, i + 1) = "-" /\ At(text, i + 2) = "\n"
            /\ IsWord(At(text, i + 3))
    THEN <<text[i], text[i + 3]>> \o FixHyphenation(text, i + 4)
    ELSE <<text[i]>> \o FixHyphenation(text, i + 1)

RECURSIVE RunEnd(_, _, _)
\* the position of the last of the characters of `class` from i on (i - 1
\* when there is none)
RunEnd(text, i, class) ==
    IF At(text, i) \in class THEN RunEnd(text, i + 1, class) ELSE i - 1

RECURSIVE Collapse(_, _, _, _, _)
\* re.sub(r'\n{3,}', '\n\n', text) and re.sub(r'[ \t]{2,}', ' ', text): every
\* run of at least `least` characters of the class becomes `repl`
Collapse(text, i, class, least, repl) ==
    IF i > Len(text) THEN <<>>
    ELSE IF RunEnd(text, i, class) - i + 1 >= least
    THEN repl \o Collapse(text, RunEnd(text, i, class) + 1, class, least, repl)
    ELSE <<text[i]>> \o Collapse(text, i + 1, class, least, repl)

RECURSIVE SplitLines(_)
\* text.split('\n')
SplitLines(text) ==
    IF \E k \in DOMAIN text : text[k] = "\n"
    THEN LET k == CHOOSE k \in DOMAIN text :
                     text[k] = "\n" /\ \A j \in 1..(k - 1) : text[j] # "\n"
         IN  <<SubSeq(text, 1, k - 1)>> \o SplitLines(SubSeq(text, k + 1, Len(text)))
    ELSE <<text>>

RECURSIVE JoinLines(_)
\* '\n'.join(lines)
JoinLines(lines) ==
    IF Len(lines) = 1 THEN lines[1]
    ELSE lines[1] \o <<"\n">> \o JoinLines(Tail(lines))

\* '\n'.join(line.strip() for line in text.split('\n'))
StripLines(text) ==
    JoinLines([n \in DOMAIN SplitLines(text) |-> Strip(SplitLines(text)[n])])

clean_text(text) ==
    LET t1 == RemoveMarkers(text, PageMarkers, 1)
        t2 == RemoveMarkers(t1, TableMarkers, 1)
        t3 == FixHyphenation(t2, 1)
        t4 == Collapse(t3, 1, {"\n"}, 3, <<"\n", "\n">>)
        t5 == Collapse(t4, 1, {" ", "\t"}, 2, <<" ">>)
    IN  Strip(StripLines(t5))

\* the characters of the texts that are cleaned
CleanAlphabet == {"a", "-", "\n", " ", "\t"} \cup PageMarkers

CleanArgs == [fn : {"clean_text"}, text : SeqsOf(CleanAlphabet, 0, MaxCleanText)]

CleanText ==
    /\ args.fn = "clean_text"
    /\ result = [called |-> FALSE]
    /\ result' = [text |-> clean_text(args.text)]
    /\ UNCHANGED <<args, inflight, provider, index_type, store, files, now, issued,
                   since_reset, last, app>>

(***************************************************************************)
(* normalize_query applied to queries: a query of the model is a few       *)
(* pieces written one after the other, or one of two whole sentences.      *)
(***************************************************************************)
MaxPieces == 4

\* the pieces: the characters of a number, a space, a word, the units in
\* some of their spellings, and the currency prefixes
Pieces ==
    {<<"2">>, <<".">>, <<" ">>, <<"x">>, <<"c", "r">>, <<"c", "r", "o", "r", "e">>,
     <<"b", "h", "k">>, <<"B", "H", "K">>, <<"I", "N", "R">>, <<"R", "s">>}

RECURSIVE Flatten(_)
\* the pieces written one after the other
Flatten(pieces) == IF pieces = <<>> THEN <<>> ELSE Head(pieces) \o Flatten(Tail(pieces))

\* "1.5cr flat" and "price of 2BHK"
ExampleQueries ==
    {<< <<"1">>, <<".">>, <<"5">>, <<"c", "r">>, <<" ">>, <<"f", "l", "a", "t">> >>,
     << <<"p", "r", "i", "c", "e">>, <<" ">>, <<"o", "f">>, <<" ">>, <<"2">>,
        <<"B", "H", "K">> >>}

NormalizeArgs ==
    [fn : {"normalize_query"}, pieces : SeqsOf(Pieces, 0, MaxPieces) \cup ExampleQueries]

NormalizeQuery ==
    /\ args.fn = "normalize_query"
    /\ result = [called |-> FALSE]
    /\ result' = [text |-> normalize_query(Flatten(args.pieces))]
    /\ UNCHANGED <<args, inflight, provider, index_type, store, files, now, issued,
                   since_reset, last, app>>

(***************************************************************************)
(* The pure functions as a state machine: the arguments are drawn at the   *)
(* start, the one step applies the function to them.                       *)
(***************************************************************************)
PureArgs == ChunkArgs \cup ProviderArgs \cup NormalizeArgs \cup CleanArgs

PureInit ==
    /\ provider = "faiss"
    /\ index_type = "IndexFlatL2"
    /\ index = <<>>
    /\ chunks = <<>>
    /\ collection = [dim |-> 0, rows |-> <<>>]
    /\ pinecone = <<>>
    /\ chunks_map = <<>>
    /\ table = <<>>
    /\ files = [f \in FilePaths |-> NoFile]
    /\ now = 0
    /\ issued = {}
    /\ since_reset = "no"
    /\ last = Call("init", TRUE, <<>>, <<>>, 0, TRUE)
    /\ document_counter = 0
    /\ calls = <<>>
    /\ response = [handler |-> "none", status |-> 0, detail |-> "", body |-> [none |-> TRUE]]
    /\ inflight = <<>>
    /\ args \in PureArgs
    /\ result = [called |-> FALSE]

PureNext ==
    \/ ChunkText
    \/ GetEmbeddingProvider
    \/ NormalizeQuery
    \/ CleanText

PureSpec == PureInit /\ [][PureNext]_vars

(***************************************************************************)
(* Claims about chunk_text (checked under PureSpec).                       *)
(***************************************************************************)
\* chunk_text has been applied to args
Chunked == args.fn = "chunk_text" /\ result # [called |-> FALSE]

\* the sentences i..j of a text, joined by single spaces
JoinRange(sentences, i, j) == Join(SubSeq(sentences, i, j))

\* C11: every chunk chunk_text returns is at most chunk_size characters long
\* or is one sentence of the text that is itself longer than chunk_size.
C11_ChunkWithinSize ==
    Chunked =>
        \A c \in DOMAIN result.chunks :
            \/ Len(result.chunks[c]) <= args.chunk_size
            \/ \E k \in DOMAIN SplitSentences(args.text) :
                  result.chunks[c] = SplitSentences(args.text)[k]

\* C12: every returned chunk is a run of consecutive whole sentences of the
\* text joined by single spaces, and every sentence of the text lies in the
\* run of at least one returned chunk.
C12_WholeSentencesCovered ==
    Chunked =>
        LET sentences == SplitSentences(args.text)
            IsRun(chunk, i, j) == i <= j /\ chunk = JoinRange(sentences, i, j)
        IN  /\ \A c \in DOMAIN result.chunks :
                  \E i, j \in DOMAIN sentences : IsRun(result.chunks[c], i, j)
            /\ \A k \in DOMAIN sentences :
                  \E c \in DOMAIN result.chunks :
                     \E i, j \in DOMAIN sentences :
                        i <= k /\ k <= j /\ IsRun(result.chunks[c], i, j)

\* C12 witness: a text with blanks before its first sentence was split into
\* two sentences that came back as two chunks
C12_Witness ==
    /\ Chunked
    /\ args.text # <<>>
    /\ args.text[1] = " "
    /\ Len(SplitSentences(args.text)) = 2
    /\ Len(result.chunks) = 2

\* the sentences of chunk c + 1 that were carried over from chunk c
CarriedOver(c) ==
    SelectSeq(result.runs[c + 1], LAMBDA k : \E m \in DOMAIN result.runs[c] : result.runs[c][m] = k)

\* C13: for consecutive chunks c and c + 1, the sentences of chunk c + 1
\* carried over from chunk c, joined by single spaces, are at most overlap
\* characters long.
C13_OverlapWithinBudget ==
    Chunked =>
        \A c \in DOMAIN result.runs :
            c + 1 \in DOMAIN result.runs =>
                LET sentences == SplitSentences(args.text)
                    carried   == CarriedOver(c)
                IN  Len(Join([k \in DOMAIN carried |-> sentences[carried[k]]])) <= args.overlap

\* C13 witness: a chunk starts with a sentence carried over from the chunk
\* before it
C13_Witness ==
    /\ Chunked
    /\ \E c \in DOMAIN result.runs :
          c + 1 \in DOMAIN result.runs /\ CarriedOver(c) # <<>>

(***************************************************************************)
(* Claims about the embedding providers (checked under PureSpec).          *)
(***************************************************************************)
\* the models a cloud provider has a documented dimension for
KnownModels(name) ==
    IF name = "openai" THEN DOMAIN DIMENSION_MAP
    ELSE IF name = "cohere" THEN CohereModels
    ELSE {}

\* C16: constructing a cloud embedding provider with a model name that its
\* table of dimensions does not hold raises; no provider is returned whose
\* dimension is a default.
C16_UnknownModelFails ==
    (/\ args.fn = "get_embedding_provider"
     /\ result # [called |-> FALSE]
     /\ args.provider \in {"openai", "cohere"}
     /\ args.model \notin KnownModels(args.provider)) => result.raised


(***************************************************************************)
(* Claims about the upload handler and the document counter (checked       *)
(* under Spec).                                                            *)
(***************************************************************************)
\* C14: the document counter grows by one with every upload that succeeds,
\* stays as it is on every upload that fails or is rejected (a failure of
\* the store's add included), and only a reset sets it to zero
C14_CounterCountsSuccesses ==
    [][/\ response'.handler = "upload" /\ response'.status = 200
            => document_counter' = document_counter + 1
       /\ response'.handler = "upload" /\ response'.status # 200
            => document_counter' = document_counter
       /\ response'.handler = "reset" /\ response'.status = 200
            => document_counter' = 0
       /\ response'.handler \notin {"upload", "reset"} \/ response'.status # 200
            => document_counter' = document_counter]_vars

\* the extensions the upload is said to accept
AcceptedExtensions == {".pdf", ".docx", ".xlsx", ".xls", ".txt"}

\* C17: an upload passes the extension check and reaches the parser exactly
\* when its extension is one of .pdf, .docx, .xlsx, .xls, .txt
C17_FiveExtensionsReachParser ==
    (response.handler = "upload" /\ Len(calls) >= 2)
        => (calls[2].arg \in AcceptedExtensions <=> (calls[2].ok /\ Took("parse")))

\* the file of the request is larger than the configured maximum
Oversize(steps) ==
    /\ steps # <<>>
    /\ steps[1].step = "validate_file_size"
    /\ steps[1].arg.size > max_file_size_mb * BytesPerMb

\* C18: an upload larger than the maximum is rejected with the size error
\* after the size test alone, and leaves the store and the counter as they
\* were
C18_OversizeRejectedFirst ==
    [][(response'.handler = "upload" /\ Oversize(calls'))
          => /\ response'.status = 413
             /\ response'.detail = "File too large"
             /\ Len(calls') = 1
             /\ store' = store
             /\ document_counter' = document_counter]_vars

\* an oversize upload was rejected by a server that holds documents
C18_Witness ==
    /\ response.handler = "upload"
    /\ Oversize(calls)
    /\ response.status = 413
    /\ TotalVectors > 0
    /\ document_counter > 0


(***************************************************************************)
(* Concurrent uploads.  upload_document is a coroutine of the server's     *)
(* event loop: it gives up control only at an await, and the loop may      *)
(* resume the suspended uploads in any order.  `inflight` holds the        *)
(* uploads since the last reset, each with the request, the statement it   *)
(* is suspended at ("done" once it returned), the value line 166 left in   *)
(* the counter and the value line 167 read for the document id.            *)
(***************************************************************************)
MaxInflight == 2

\* an upload that gives up control between the increment and the read as well
MutYields(stmt) == stmt \in {"read", "count"}

\* the statements of upload_document at which it gives up control: the
\* await of file.read() is its only await
Yields(stmt) == stmt = "read"

\* the uploads the loop interleaves: one PDF within the size limit, with at
\* most one chunk
LoopRequests ==
    {r \in UploadRequests :
        r.filename = <<"a", "pdf">> /\ r.file_size = 1 /\ Len(r.texts) <= 1}

Frame(request, pc, incremented, count) ==
    [request |-> request, pc |-> pc, incremented |-> incremented, count |-> count]

\* POST /upload arrives: the coroutine runs to `await file.read()`
UploadArrives(request) ==
    /\ Len(inflight) < MaxInflight
    /\ Yields("read")
    /\ inflight' = Append(inflight, Frame(request, "read", 0, 0))
    /\ now' = now
    /\ UNCHANGED <<pure, provider, index_type, store, files, issued, since_reset, last, app>>

\* the loop resumes a suspended upload, which runs to its next await or to
\* its return
UploadResumes(i) ==
    LET frame      == inflight[i]
        r          == frame.request
        run        == UploadRun(r.filename, r.file_size, r.extracted, r.texts, r.fault)
        increments == frame.pc = "read" /\ run.counted
        counter    == IF increments THEN document_counter + 1 ELSE document_counter
        incremented == IF increments THEN counter ELSE frame.incremented
        embeddings == Embed(r.texts)
        doc_id     == DocId(counter, now)
        metadata   == Metadata(r.filename, doc_id, Len(r.texts))
    IN  /\ frame.pc # "done"
        /\ increments => document_counter < MaxDocs
        /\ StoreSize + Len(r.texts) <= MaxVectors
        /\ UNCHANGED <<pure, provider, index_type, files, issued, since_reset, last>>
        /\ document_counter' = counter
        /\ IF increments /\ Yields("count")
           THEN /\ inflight' = [inflight EXCEPT ![i] = Frame(r, "count", incremented, 0)]
                /\ now' = now
                /\ UNCHANGED <<store, calls, response>>
           ELSE /\ inflight' =
                      [inflight EXCEPT ![i] =
                          Frame(r, "done", incremented, IF run.counted THEN counter ELSE 0)]
                /\ calls' = run.calls
                /\ CASE run.add = "stored"  -> StoreAdd(embeddings, r.texts, metadata)
                     [] run.add = "refused" -> StoreAddRefused(embeddings, r.texts, metadata)
                     [] OTHER               -> UNCHANGED store
                /\ response' =
                      IF run.status = 200
                      THEN Response("upload", 200, "Document processed successfully",
                                    [document_id |-> doc_id, filename |-> r.filename,
                                     chunks_added |-> Len(r.texts),
                                     total_chunks |-> TotalVectors'])
                      ELSE UploadError(run.status, run.detail)
                /\ TimePasses

\* DELETE /reset between the uploads: reset_database has no await; the
\* uploads that returned before it belong to the time before the reset
ResetBetween(fault) ==
    /\ IF fault = "reset"
       THEN /\ UNCHANGED <<store, document_counter, inflight>>
            /\ calls' = <<Ran("reset", FALSE, <<>>)>>
            /\ response' = Response("reset", 500, "Reset error", NoBody)
       ELSE /\ StoreReset
            /\ document_counter' = 0
            /\ inflight' = SelectSeq(inflight, LAMBDA frame : frame.pc # "done")
            /\ calls' = <<Ran("reset", TRUE, <<>>)>>
            /\ response' = Response("reset", 200, "Vector database reset successfully",
                                    [total_documents |-> 0, total_chunks |-> 0])
    /\ now' = now
    /\ UNCHANGED <<pure, provider, index_type, files, issued, since_reset, last>>

LoopNext ==
    \/ \E request \in LoopRequests : UploadArrives(request)
    \/ \E i \in DOMAIN inflight : UploadResumes(i)
    \/ \E fault \in {"none"} \cup (IF Remote THEN {"reset"} ELSE {}) : ResetBetween(fault)

LoopSpec == Init /\ [][LoopNext]_vars

\* the uploads since the last reset that took a counter value
Counted == {i \in DOMAIN inflight : inflight[i].count > 0}

\* C15: whatever the interleaving of the uploads, each reads for its
\* document id the value its own increment left in the counter, and no two
\* uploads between two resets get the same value
C15_CounterValuesDistinct ==
    /\ \A i \in Counted : inflight[i].count = inflight[i].incremented
    /\ \A i, j \in Counted : i # j => inflight[i].count # inflight[j].count

\* two uploads were in flight together and the one that arrived second took
\* its counter value first
C15_Witness ==
    /\ Len(inflight) = 2
    /\ Counted = {1, 2}
    /\ inflight[2].count < inflight[1].count


(***************************************************************************)
(* Claims about search results (checked under StoreSpec).                  *)
(***************************************************************************)
\* the queries of the configured width
DimQueries == {q \in Queries : Len(q) = Dim}

\* C19: after any sequence of add, load and reset, a search does not raise
\* and returns exactly min(top_k, n) results, where n is the number of
\* entries the store reports (none when the store is empty)
C19_SearchReturnsMin ==
    \A q \in DimQueries, k \in 1..MaxTopK :
        /\ Search(q, k).ok
        /\ Len(Search(q, k).results) = Min(k, TotalVectors)


\* C20: the metadata a search returns for an entry is the metadata map that
\* was given to add for it, whatever the keys of the map
C20_MetadataRoundTrips ==
    [][(last'.op = "add" /\ last'.ok /\ last'.aligned) =>
          \A q \in DimQueries, k \in 1..MaxTopK :
              Search(q, k)'.ok =>
                  \A r \in DOMAIN Search(q, k)'.results, i \in DOMAIN last'.ids :
                      Search(q, k)'.results[r].id = last'.ids[i]
                          => Search(q, k)'.results[r].metadata = last'.results[i]]_vars


(***************************************************************************)
(* Claims about POST /load (checked under Spec).                           *)
(***************************************************************************)
\* the status the handlers give to whatever their except clause catches
GenericErrorStatus == 500

\* C21: a load from a persistence path that does not exist fails, and the
\* caller receives for it an error other than the one given for generic
\* I/O or processing failures
C21_NotFoundDistinct ==
    (response.handler = "load" /\ provider = "faiss" /\ ~Exists(PersistPath))
        => /\ ~calls[1].ok
           /\ response.status # 200
           /\ response.status # GenericErrorStatus


(***************************************************************************)
(* Claims about the question of a query (checked under Spec).              *)
(***************************************************************************)
\* C22: the normalized question goes to the embedding and nowhere else: the
\* answer generation receives the question as the caller wrote it, and so
\* does the question field of the response
C22_OriginalQuestionAnswered ==
    (response.handler = "query" /\ calls # <<>>)
        => /\ \A i \in DOMAIN calls :
                 /\ calls[i].step = "embed" => 
                        [question |-> Asked, normalized_question |-> calls[i].arg]
                            \in NormalizedQuestions
                 /\ calls[i].step = "generate_answer" => calls[i].arg = Asked
           /\ response.status = 200 => response.body.question = Asked

\* a query whose normalization rewrote the question was answered by the LLM
C22_Witness ==
    /\ response.handler = "query"
    /\ response.status = 200
    /\ Took("generate_answer")
    /\ [question |-> Asked, normalized_question |-> Strip(Asked)] \notin NormalizedQuestions
    /\ response.body.question = Asked


(***************************************************************************)
(* Claims about normalize_query (checked under PureSpec).                  *)
(***************************************************************************)
\* normalize_query has been applied to args
Normalized == args.fn = "normalize_query" /\ result # [called |-> FALSE]

CroreSpellings == {<<"c", "r">>, <<"c", "r", "o", "r", "e">>}
BhkSpellings == {<<"b", "h", "k">>, <<"B", "H", "K">>}
CurrencyPrefixes == {<<"I", "N", "R">>, <<"R", "s">>}
IsNumeral(piece) == Len(piece) = 1 /\ piece[1] \in Digits
IsUnit(piece) == piece \in CroreSpellings \cup BhkSpellings

\* a query in which every unit is written directly after a digit and ends
\* the word it is in (the end of the query, a space or a full stop follows),
\* with no currency prefix and no space at either end
UnitsAfterNumbers(pieces) ==
    /\ pieces # <<>>
    /\ pieces[1] # <<" ">> /\ pieces[Len(pieces)] # <<" ">>
    /\ \A n \in DOMAIN pieces :
          /\ pieces[n] \notin CurrencyPrefixes
          /\ IsUnit(pieces[n]) =>
                /\ n > 1 /\ IsNumeral(pieces[n - 1])
                /\ n < Len(pieces) => pieces[n + 1] \in {<<" ">>, <<".">>}

\* the query with every unit rewritten, and nothing else touched
Rewritten(pieces) ==
    [n \in DOMAIN pieces |->
        IF pieces[n] \in CroreSpellings THEN <<" ", "C", "r", "o", "r", "e", "s">>
        ELSE IF pieces[n] \in BhkSpellings THEN <<" ", "B", "H", "K">>
        ELSE pieces[n]]

\* C23: a number directly followed by cr or crore becomes the number, one
\* space and Crores, a number directly followed by bhk in any case becomes
\* the number, one space and BHK, and the rest of the query stays as it was
C23_UnitsRewrittenRestKept ==
    (Normalized /\ UnitsAfterNumbers(args.pieces))
        => result.text = Flatten(Rewritten(args.pieces))

\* a query has a digit character
HasDigit(text) == \E i \in DOMAIN text : text[i] \in Digits

\* C26: a query without a digit character comes back unchanged apart from
\* the trimming of leading and trailing whitespace
C26_NoDigitUnchanged ==
    (Normalized /\ ~HasDigit(Flatten(args.pieces)))
        => result.text = Strip(Flatten(args.pieces))


(***************************************************************************)
(* Claims about clean_text (checked under PureSpec).                       *)
(***************************************************************************)
\* clean_text has been applied to args
Cleaned == args.fn = "clean_text" /\ result # [called |-> FALSE]

\* C24: the output of clean_text never has three or more newline
\* characters in a row, whatever the input, lines of only spaces or tabs
\* included
C24_NoThreeNewlines ==
    Cleaned => \A i \in DOMAIN result.text :
                  ~(/\ i + 2 <= Len(result.text)
                    /\ result.text[i] = "\n"
                    /\ result.text[i + 1] = "\n"
                    /\ result.text[i + 2] = "\n")


(***************************************************************************)
(* Claims about the store under concurrent requests (checked under         *)
(* LoopSpec).                                                              *)
(***************************************************************************)
\* the ids of the vectors the store holds, and the ids it holds a text and
\* metadata record for
VectorIds ==
    CASE provider = "faiss"    -> DOMAIN index
      [] provider = "chromadb" -> {collection.rows[i].id : i \in DOMAIN collection.rows}
      [] provider = "pinecone" -> {pinecone[i].id : i \in DOMAIN pinecone}
      [] provider = "pgvector" -> {table[i].id : i \in DOMAIN table}
RecordIds ==
    CASE provider = "faiss"    -> DOMAIN chunks
      [] provider = "chromadb" -> {collection.rows[i].id : i \in DOMAIN collection.rows}
      [] provider = "pinecone" -> DOMAIN chunks_map
      [] provider = "pgvector" -> {table[i].id : i \in DOMAIN table}

\* C25: whatever the interleaving of the requests, no upload is suspended
\* inside its add while a reset runs, and the store never holds vectors
\* without their text and metadata records, nor records without their
\* vectors
C25_AddResetSerialized ==
    /\ \A i \in DOMAIN inflight : inflight[i].pc \in {"read", "done"}
    /\ VectorIds = RecordIds


(***************************************************************************)
(* Claims about the in-memory store (checked under StoreSpec).             *)
(***************************************************************************)
\* C27: in the in-memory store, after any sequence of add, search, save,
\* load and reset calls, the index holds as many vectors as there are chunk
\* records, so that the k-th record stands for the k-th vector
C27_IndexMatchesChunks ==
    provider = "faiss" => Len(index) = Len(chunks)


(***************************************************************************)
(* save and load of the in-memory store on any path: the store is filled   *)
(* by adds of one entry, saved, reset and loaded.                          *)
(***************************************************************************)
PathInit == Init /\ provider = "faiss"

PathNext ==
    \/ \E embeddings \in SeqsOf(Vectors(Dim), 1, 1),
          texts \in SeqsOf(Texts, 1, 1),
          metadata \in SeqsOf(Metas, 1, 1) : Add(embeddings, texts, metadata)
    \/ \E path \in Paths : Save(path)
    \/ \E path \in Paths : Load(path)
    \/ Reset

PathSpec == PathInit /\ [][PathNext]_vars

\* C28: in the in-memory store, a load that follows a save on the same
\* path, whether or not the path holds ".index", succeeds and leaves the
\* store as it was at the save: the same vectors, ids, texts and metadata,
\* and the same search results
C28_SaveLoadRestores ==
    [][(last.op = "save" /\ last'.op = "load" /\ last'.path = last.path) =>
          /\ last'.ok
          /\ index' = index
          /\ chunks' = chunks
          /\ \A q \in DimQueries, k \in 1..MaxTopK : Search(q, k)' = Search(q, k)]_vars


(***************************************************************************)
(* Claims about the progress of chunk_text (checked under PureSpec).       *)
(***************************************************************************)
\* the position in the source of the last sentence of the c-th chunk
LastSentence(c) == result.runs[c][Len(result.runs[c])]

\* C29: for every text, chunk_size and overlap, an overlap of chunk_size
\* or more included, what chunk_text returns has at most as many chunks as
\* the text has sentences, and every chunk ends with a sentence that comes
\* later in the source than the last sentence of the chunk before it (both
\* loops of chunk_text run over a finite list, position by position)
C29_ChunksAdvance ==
    Chunked =>
        /\ Len(result.chunks) <= Len(SplitSentences(args.text))
        /\ \A c \in 1..(Len(result.chunks) - 1) : LastSentence(c) < LastSentence(c + 1)

\* with an overlap of at least chunk_size, a text of three sentences came
\* back as three chunks, the later ones opening with carried-over sentences
C29_Witness ==
    /\ Chunked
    /\ args.overlap >= args.chunk_size
    /\ Len(SplitSentences(args.text)) = 3
    /\ Len(result.chunks) = 3
    /\ Len(result.runs[2]) > 1
    /\ Len(result.runs[3]) > 1


(***************************************************************************)
(* Claims about uploads without text (checked under Spec).                 *)
(***************************************************************************)
\* the last upload came to chunking with a text that was empty after cleaning
CleanedEmpty == \E i \in DOMAIN calls : calls[i].step = "chunk_text" /\ calls[i].arg = <<>>

\* C30: an upload that returns success has stored at least one chunk, and
\* an upload whose text is empty after cleaning is rejected as a validation
\* error, without the counter being incremented and without add being
\* called on an empty batch
C30_EmptyTextRejected ==
    response.handler = "upload" =>
        /\ response.status = 200 => response.body.chunks_added >= 1
        /\ CleanedEmpty => (response.status = 400 /\ ~Took("count") /\ ~Took("add"))

==============================================================================
